---- MODULE Spec2Model ----
(***************************************************************************)
(* punini: terminal audio player (src/src/main.rs).                        *)
(*                                                                         *)
(* The model follows run_app's loop (draw, lyric sync, poll/handle one     *)
(* event), AppState::load_track, the startup scan of main and parse_lrc.   *)
(* The rodio sink is a record (queue of appended sources, pause flag,      *)
(* position); the audio thread advances the position and ends tracks.      *)
(* Durations and positions are in milliseconds.  Option<T> is <<>> (None)  *)
(* or <<x>> (Some(x)).  Strings that the parser inspects are sequences of  *)
(* one-character strings.                                                  *)
(***************************************************************************)
EXTENDS Integers, Sequences, FiniteSets, TLC

\* ------------------------------------------------------------------ bounds
\* Number of directory entries the music directory can hold.
NumEntries == 6
\* The sink position takes the values 0, 1000, ..., MaxPosSteps * 1000 ms.
MaxPosSteps == 2
\* With an empty library a release build lets the cursor leave 0..len-1; the
\* model follows it this many steps away from 0 and from usize::MAX.
MaxDrift == 1
\* Number of lines of the sidecar texts drawn for the parser and for the
\* loop under fairness.
MaxLines == 2
\* Number of lines of the sidecar texts drawn for the lyric sync.
MaxSyncLines == 3

\* Stand-in for usize::MAX, the value `0usize - 1` wraps to in a build without
\* overflow checks (the largest integer the model checker represents).
UsizeMax == 2147483647

\* ------------------------------------------------------------------ Option
None == <<>>
Some(x) == <<x>>
IsSome(o) == o # <<>>
Unwrap(o) == o[1]

\* ---------------------------------------------------- directory and tracks
\* Directory entries are numbered in the lexicographic order of their paths.
Entries == 1..NumEntries

\* path.is_file(): every fourth-of-six entry is a sub-directory ("d.ogg/").
is_file(e) == e % 6 # 4

\* path.extension(), as written on disk: None for an entry without one.
extension(e) ==
    CASE e % 6 = 1 -> Some("flac")
      [] e % 6 = 2 -> Some("MP3")
      [] e % 6 = 3 -> Some("txt")
      [] e % 6 = 4 -> Some("ogg")
      [] e % 6 = 5 -> None
      [] OTHER     -> Some("M4a")

\* str::to_lowercase on the extensions that occur.
keep_case(s) == s
to_lowercase(s) ==
    CASE s = "MP3" -> "mp3"
      [] s = "M4a" -> "m4a"
      [] OTHER     -> s

SupportedExt == {"flac", "mp3", "wav", "ogg", "m4a"}

\* The filter of the scan loop.
is_audio(e) ==
    /\ is_file(e)
    /\ IsSome(extension(e))
    /\ to_lowercase(Unwrap(extension(e))) \in SupportedExt

\* files.sort(): the ascending sequence of a set of paths.
RECURSIVE SortPaths(_)
SortPaths(S) ==
    IF S = {} THEN <<>>
    ELSE LET m == CHOOSE x \in S : \A y \in S : x <= y
         IN  <<m>> \o SortPaths(S \ {m})

\* The startup scan.  dir is None when MUSIC_DIR does not exist or read_dir
\* fails, else Some(set of entries).
scan(dir) ==
    IF ~IsSome(dir) THEN <<>>
    ELSE SortPaths({e \in Unwrap(dir) : is_audio(e)})

\* Directory states at startup: missing, empty, or holding the entries up to
\* one of its audio files.
StartupDirs == {None, Some({})} \cup {Some(1..k) : k \in {e \in Entries : is_audio(e)}}

\* ------------------------------------------------------------ ListState
\* ratatui's stateful List render, called with &mut ListState: on a non-empty
\* area an empty list clears the selection and an index past the end is
\* clamped; on an empty area the state is left alone.
ListRender(n, sel, area_empty) ==
    IF area_empty THEN sel
    ELSE IF n = 0 THEN None
    ELSE IF IsSome(sel) /\ Unwrap(sel) >= n THEN Some(n - 1)
    ELSE sel

\* ------------------------------------------------------------------- sink
EmptySink == [queue |-> <<>>, paused |-> FALSE, pos |-> 0]

sink_empty(s) == s.queue = <<>>
\* Sink::stop empties the queue; the pause flag is kept.
sink_stop(s) == [s EXCEPT !.queue = <<>>, !.pos = 0]
\* Sink::append queues a source; a source appended to an empty sink starts
\* at position zero.
sink_append(s, src) ==
    [s EXCEPT !.queue = Append(@, src),
              !.pos = IF s.queue = <<>> THEN 0 ELSE @]
sink_play(s) == [s EXCEPT !.paused = FALSE]
sink_pause(s) == [s EXCEPT !.paused = TRUE]

\* Faulty variant: Space that only ever pauses.
toggle_pause_always_pause(s) == sink_pause(s)
\* The Space handler.
toggle_pause(s) == IF s.paused THEN sink_play(s) ELSE sink_pause(s)

\* The playback state the sink is in, as far as AppState can tell.
PlaybackState(s) ==
    IF sink_empty(s) THEN "NoAudio"
    ELSE IF s.paused THEN "Paused" ELSE "Playing"

\* -------------------------------------------------------- browser cursor
\* usize subtraction `n - 1`: None stands for the overflow at n = 0.
checked_sub1(n) == IF n = 0 THEN None ELSE Some(n - 1)
\* The value a build without overflow checks computes.
wrapping_sub1(n) == IF n = 0 THEN UsizeMax ELSE n - 1

\* Faulty variant: Up that stays on the first row instead of wrapping.
move_up_no_wrap(sel, n) ==
    IF IsSome(sel)
    THEN (IF Unwrap(sel) = 0 THEN 0 ELSE Unwrap(sel) - 1)
    ELSE 0
\* Up / 'k': the index selected next.
move_up(sel, n) ==
    IF IsSome(sel)
    THEN (IF Unwrap(sel) = 0 THEN wrapping_sub1(n) ELSE Unwrap(sel) - 1)
    ELSE 0

\* Down / 'j': the index selected next.
move_down_no_wrap(sel, n) == IF IsSome(sel) THEN Unwrap(sel) + 1 ELSE 0
move_down(sel, n) ==
    IF IsSome(sel)
    THEN (IF Unwrap(sel) >= wrapping_sub1(n) THEN 0 ELSE Unwrap(sel) + 1)
    ELSE 0

\* `files.len() - 1` is evaluated (and overflows when the library is empty).
up_subtracts(sel) == IsSome(sel) /\ Unwrap(sel) = 0
down_subtracts(sel) == IsSome(sel)

\* Cursor values the model follows.
InModelRange(i) == i <= NumEntries + MaxDrift \/ i >= UsizeMax - MaxDrift

\* ------------------------------------------------------------ lyric text
\* Characters are one-character strings; "ar3" stands for a non-ASCII decimal
\* digit (ARABIC-INDIC DIGIT THREE), which the regex class \d matches and
\* u64's parser rejects.
AsciiDigits == {"0", "1", "2", "3", "4", "5", "6", "7", "8", "9"}
IsDigit(c) == c \in AsciiDigits \cup {"ar3"}
IsSpace(c) == c \in {" ", "\t", "\r"}

DigitValue(c) ==
    CASE c = "0" -> 0 [] c = "1" -> 1 [] c = "2" -> 2 [] c = "3" -> 3
      [] c = "4" -> 4 [] c = "5" -> 5 [] c = "6" -> 6 [] c = "7" -> 7
      [] c = "8" -> 8 [] OTHER -> 9

\* str::parse::<u64>().unwrap_or(0) on a run of \d characters.
RECURSIVE DecimalValue(_)
DecimalValue(ds) ==
    IF ds = <<>> THEN 0
    ELSE 10 * DecimalValue(SubSeq(ds, 1, Len(ds) - 1)) + DigitValue(ds[Len(ds)])
parse_u64_or_0(ds) ==
    IF \A i \in 1..Len(ds) : ds[i] \in AsciiDigits THEN DecimalValue(ds) ELSE 0

\* str::trim.
RECURSIVE trim_start(_)
trim_start(s) ==
    IF s # <<>> /\ IsSpace(s[1]) THEN trim_start(Tail(s)) ELSE s
RECURSIVE trim_end(_)
trim_end(s) ==
    IF s # <<>> /\ IsSpace(s[Len(s)]) THEN trim_end(SubSeq(s, 1, Len(s) - 1)) ELSE s
trim(s) == trim_end(trim_start(s))

\* str::lines: split at "\n", a final empty piece dropped, a trailing "\r" of
\* each piece dropped.
RECURSIVE SplitNewline(_, _)
SplitNewline(s, cur) ==
    IF s = <<>> THEN (IF cur = <<>> THEN <<>> ELSE <<cur>>)
    ELSE IF s[1] = "\n" THEN <<cur>> \o SplitNewline(Tail(s), <<>>)
    ELSE SplitNewline(Tail(s), Append(cur, s[1]))
StripCr(l) ==
    IF l # <<>> /\ l[Len(l)] = "\r" THEN SubSeq(l, 1, Len(l) - 1) ELSE l
lines(content) ==
    LET ps == SplitNewline(content, <<>>)
    IN  [i \in 1..Len(ps) |-> StripCr(ps[i])]

\* The regex \[(\d{2}):(\d{2})(?:\.(\d{2,3}))?\](.*) tried at position p of a
\* line: the number of fraction digits it captures there (0 for no fraction
\* group), or -1 when it does not match at p.
CharAt(l, i) == IF i >= 1 /\ i <= Len(l) THEN l[i] ELSE ""
FracDigitsAt(l, p) ==
    IF ~( /\ CharAt(l, p) = "["
          /\ IsDigit(CharAt(l, p + 1)) /\ IsDigit(CharAt(l, p + 2))
          /\ CharAt(l, p + 3) = ":"
          /\ IsDigit(CharAt(l, p + 4)) /\ IsDigit(CharAt(l, p + 5)) )
    THEN -1
    ELSE IF CharAt(l, p + 6) = "]" THEN 0
    ELSE IF /\ CharAt(l, p + 6) = "."
            /\ IsDigit(CharAt(l, p + 7)) /\ IsDigit(CharAt(l, p + 8))
            /\ IsDigit(CharAt(l, p + 9))
            /\ CharAt(l, p + 10) = "]"
         THEN 3
    ELSE IF /\ CharAt(l, p + 6) = "."
            /\ IsDigit(CharAt(l, p + 7)) /\ IsDigit(CharAt(l, p + 8))
            /\ CharAt(l, p + 9) = "]"
         THEN 2
    ELSE -1

\* re.is_match / re.captures: the regex is not anchored, so the leftmost
\* position where it matches decides.
MatchPositions(l) == {p \in 1..Len(l) : FracDigitsAt(l, p) >= 0}
is_match(l) == MatchPositions(l) # {}
MatchStart(l) == CHOOSE p \in MatchPositions(l) : \A q \in MatchPositions(l) : p <= q

\* The LyricLine pushed for a trimmed line the regex matches.
millis_of(m_str) ==
    CASE Len(m_str) = 1 -> parse_u64_or_0(m_str) * 100
      [] Len(m_str) = 2 -> parse_u64_or_0(m_str) * 10
      [] OTHER          -> parse_u64_or_0(m_str)
lyric_line(l) ==
    LET p    == MatchStart(l)
        nf   == FracDigitsAt(l, p)
        min  == parse_u64_or_0(SubSeq(l, p + 1, p + 2))
        sec  == parse_u64_or_0(SubSeq(l, p + 4, p + 5))
        ms   == IF nf = 0 THEN 0 ELSE millis_of(SubSeq(l, p + 7, p + 6 + nf))
        close == IF nf = 0 THEN p + 6 ELSE p + 7 + nf
    IN  [time |-> (min * 60 + sec) * 1000 + ms,
         text |-> trim(SubSeq(l, close + 1, Len(l)))]

\* The loop of parse_lrc: one LyricLine per non-empty trimmed line that the
\* regex matches, in input order.
RECURSIVE collect_lines_abort(_)
collect_lines_abort(ls) ==
    IF ls = <<>> THEN <<>>
    ELSE LET l == trim(Head(ls))
         IN  IF l = <<>> \/ ~is_match(l) THEN <<>>
             ELSE <<lyric_line(l)>> \o collect_lines_abort(Tail(ls))
RECURSIVE collect_lines(_)
collect_lines(ls) ==
    IF ls = <<>> THEN <<>>
    ELSE LET l == trim(Head(ls))
         IN  IF l = <<>> \/ ~is_match(l) THEN collect_lines(Tail(ls))
             ELSE <<lyric_line(l)>> \o collect_lines(Tail(ls))

\* lines.sort_by_key(|k| k.time): a stable sort (insertion after the last
\* element whose key is not greater).
RECURSIVE insert_by_time_unstable(_, _)
insert_by_time_unstable(sorted, x) ==
    IF sorted = <<>> THEN <<x>>
    ELSE IF sorted[Len(sorted)].time < x.time THEN Append(sorted, x)
    ELSE Append(insert_by_time_unstable(SubSeq(sorted, 1, Len(sorted) - 1), x),
                sorted[Len(sorted)])
RECURSIVE insert_by_time(_, _)
insert_by_time(sorted, x) ==
    IF sorted = <<>> THEN <<x>>
    ELSE IF sorted[Len(sorted)].time <= x.time THEN Append(sorted, x)
    ELSE Append(insert_by_time(SubSeq(sorted, 1, Len(sorted) - 1), x),
                sorted[Len(sorted)])
RECURSIVE sort_by_time(_)
sort_by_time(ls) ==
    IF ls = <<>> THEN <<>>
    ELSE insert_by_time(sort_by_time(SubSeq(ls, 1, Len(ls) - 1)), ls[Len(ls)])

\* parse_lrc followed by a removal of repeated lines.
RECURSIVE dedup(_)
dedup(ls) ==
    IF ls = <<>> THEN <<>>
    ELSE LET init == dedup(SubSeq(ls, 1, Len(ls) - 1))
         IN  IF \E k \in 1..Len(init) : init[k] = ls[Len(ls)] THEN init
             ELSE Append(init, ls[Len(ls)])
parse_lrc_dedup(content) == dedup(sort_by_time(collect_lines(lines(content))))
parse_lrc(content) == sort_by_time(collect_lines(lines(content)))

\* The lyric sync of the loop: rposition(|line| line.time <= current_pos),
\* a 0-based index.
active_idx_upcoming(lyrics, current_pos) ==
    LET hits == {i \in 1..Len(lyrics) : lyrics[i].time >= current_pos}
    IN  IF hits = {} THEN None
        ELSE Some((CHOOSE i \in hits : \A j \in hits : i <= j) - 1)
active_idx_first(lyrics, current_pos) ==
    LET hits == {i \in 1..Len(lyrics) : lyrics[i].time <= current_pos}
    IN  IF hits = {} THEN None
        ELSE Some((CHOOSE i \in hits : \A j \in hits : i <= j) - 1)
active_idx(lyrics, current_pos) ==
    LET hits == {i \in 1..Len(lyrics) : lyrics[i].time <= current_pos}
    IN  IF hits = {} THEN None
        ELSE Some((CHOOSE i \in hits : \A j \in hits : j <= i) - 1)

\* ------------------------------------------------------------------ state
VARIABLES
    files,            \* app.files: the library, sorted paths
    file_list_state,  \* app.file_list_state.selected(): the browser cursor
    sink,             \* app.sink
    title, artist, album, duration, cover_art,
    lyrics,           \* app.lyrics
    lyrics_state,     \* app.lyrics_state.selected(): the sync cursor
    pc,               \* position in run_app's loop: draw, sync, poll; exited, panicked
    handled,          \* history: the key the step just taken handled, with the
                      \* cursor and playback state it found; None after any other step
    prevSpace,        \* history: the playback state the last Space found, while no
                      \* other key and no end of track came after it; else None
    lastLoad,         \* history: track and surroundings of the last load_track
    music_dir,        \* outside the program: what MUSIC_DIR held at startup
    lrc_files,        \* outside the program: the text of each track's sidecar
    ticked            \* history: the lyric sync has run since the last load_track

vars == <<files, file_list_state, sink, title, artist, album, duration,
          cover_art, lyrics, lyrics_state, pc, handled, prevSpace, lastLoad,
          music_dir, lrc_files, ticked>>

disk == <<music_dir, lrc_files>>

metadata == <<title, artist, album, duration, cover_art, lyrics>>

\* ------------------------------------------------- tracks, tags, sidecars
\* Display strings: a literal of the program, the file name of a track, or a
\* field of a track's tag.
Lit(s) == [kind |-> "literal", text |-> s, of |-> 0]
FileName(t) == [kind |-> "file_name", text |-> "", of |-> t]
TagField(f, t) == [kind |-> f, text |-> "", of |-> t]

\* What is on disk for track t.  Three kinds of file, by t % 3:
\*   1: a primary tag with title, artist, album, a picture and a text lyrics item;
\*   2: a primary tag with none of the three fields, no picture and a lyrics
\*      item that is not text; the decoder cannot tell its duration;
\*   0: readable by the tag reader, but without a primary tag.
has_primary_tag(t) == t % 3 # 0
tag_field(f, t) == IF t % 3 = 1 THEN Some(TagField(f, t)) ELSE None
has_picture(t) == t % 3 = 1
total_duration(t) == IF t % 3 = 2 THEN None ELSE Some(t * 60000)

\* The digit that marks a lyric line as belonging to track t.
TrackChar(t) == ToString(t % 10)

\* The tag's Lyrics items: "[00:00]E<t>" as text, after a non-text one.
EmbeddedText(t) == <<"[", "0", "0", ":", "0", "0", "]", "E", TrackChar(t)>>
lyrics_items(t) ==
    IF t % 3 = 1
    THEN <<[is_text |-> FALSE, text |-> <<>>], [is_text |-> TRUE, text |-> EmbeddedText(t)]>>
    ELSE <<[is_text |-> FALSE, text |-> <<>>]>>

\* A sidecar <track>.lrc: "[00:02]S<t>\n[00:01]L<t>\n".
DefaultSidecar(t) ==
    <<"[", "0", "0", ":", "0", "2", "]", "S", TrackChar(t), "\n",
      "[", "0", "0", ":", "0", "1", "]", "L", TrackChar(t), "\n">>

\* fs::read_to_string(&lrc_path), when it succeeds.
SidecarContent(t) == lrc_files[t]

\* What one call of load_track meets outside the program: audio is "err" when
\* File::open or Decoder::new fails, probe is "err" when the tag reader fails,
\* lrc tells whether the sidecar exists and can be read, image whether the
\* picker and the image decoder succeed.
LoadEnvs(t) ==
    [audio : {"err", "ok"},
     probe : {"err", "ok"},
     lrc   : {"absent", "unreadable", "ok"},
     image : IF has_picture(t) THEN BOOLEAN ELSE {FALSE}]

\* ------------------------------------------------------------ load_track
\* Faulty variant: the new source is appended behind what the sink holds.
load_sink_queueing(s, t, env) ==
    IF env.audio = "ok" THEN sink_play(sink_append(s, t)) ELSE s
\* Faulty variant: the load does not call play().
load_sink_keep_pause(s, t, env) ==
    LET s1 == IF ~sink_empty(s) THEN sink_stop(s) ELSE s
    IN  IF env.audio = "ok" THEN sink_append(sink_stop(s1), t) ELSE s1
\* Steps 1 and 2 on the sink.
load_sink(s, t, env) ==
    LET s1 == IF ~sink_empty(s) THEN sink_stop(s) ELSE s
    IN  IF env.audio = "ok" THEN sink_play(sink_append(sink_stop(s1), t)) ELSE s1

\* The fields after the call.  `old` is the field's value before it, which the
\* reset at the top of load_track overwrites.
load_duration(old, t, env) ==
    IF env.audio = "ok" /\ IsSome(total_duration(t))
    THEN Unwrap(total_duration(t))
    ELSE 0

\* The tag the loader reads its fields from, if any.
HasTag(t, env) == env.probe = "ok" /\ has_primary_tag(t)

unwrap_or(o, d) == IF IsSome(o) THEN Unwrap(o) ELSE d

load_title(old, t, env) ==
    IF env.probe = "ok"
    THEN (IF has_primary_tag(t)
          THEN unwrap_or(tag_field("title", t), Lit("Unknown Title"))
          ELSE Lit("Loading..."))
    ELSE FileName(t)

load_artist(old, t, env) ==
    IF HasTag(t, env)
    THEN unwrap_or(tag_field("artist", t), Lit("Unknown Artist"))
    ELSE Lit("-")

load_album(old, t, env) ==
    IF HasTag(t, env)
    THEN unwrap_or(tag_field("album", t), Lit("Unknown Album"))
    ELSE Lit("-")

load_cover_art(old, t, env) ==
    IF HasTag(t, env) /\ has_picture(t) /\ env.image THEN Some(t) ELSE None

\* The loop over t.items(): the first Lyrics item holding text.
RECURSIVE first_text_item(_)
first_text_item(items) ==
    IF items = <<>> THEN None
    ELSE IF Head(items).is_text THEN Some(Head(items).text)
    ELSE first_text_item(Tail(items))

\* Faulty variant: the lyrics are not reset before the new ones are looked for.
load_lyrics_keep_old(old, t, env) ==
    IF HasTag(t, env)
    THEN (IF env.lrc # "absent"
          THEN (IF env.lrc = "ok" THEN parse_lrc(SidecarContent(t)) ELSE old)
          ELSE (IF IsSome(first_text_item(lyrics_items(t)))
                THEN parse_lrc(Unwrap(first_text_item(lyrics_items(t))))
                ELSE old))
    ELSE old
\* Step 3, lyrics: sidecar first, then the tag, both only under a primary tag.
load_lyrics(old, t, env) ==
    IF HasTag(t, env)
    THEN (IF env.lrc # "absent"
          THEN (IF env.lrc = "ok" THEN parse_lrc(SidecarContent(t)) ELSE <<>>)
          ELSE (IF IsSome(first_text_item(lyrics_items(t)))
                THEN parse_lrc(Unwrap(first_text_item(lyrics_items(t))))
                ELSE <<>>))
    ELSE <<>>

\* ------------------------------------------------------- the main loop
Positions == {k * 1000 : k \in 0..MaxPosSteps}

Key(k, ld) ==
    Some([key |-> k, load |-> ld, sel |-> file_list_state,
          was |-> PlaybackState(sink), before_that |-> prevSpace])

\* main: scan, AppState construction, default selection.
Constructed ==
    /\ files = scan(music_dir)
    /\ file_list_state = IF files # <<>> THEN Some(0) ELSE None
    /\ sink = EmptySink
    /\ title = Lit("No Track Playing")
    /\ artist = Lit("")
    /\ album = Lit("")
    /\ duration = 0
    /\ cover_art = None
    /\ lyrics = <<>>
    /\ lyrics_state = None
    /\ pc = "draw"
    /\ handled = None
    /\ prevSpace = None
    /\ lastLoad = None
    /\ ticked = FALSE

Init ==
    /\ music_dir \in StartupDirs
    /\ lrc_files = [t \in Entries |-> DefaultSidecar(t)]
    /\ Constructed

\* terminal.draw(|f| ui(f, app)): the two stateful list widgets get the
\* ListState mutably; the lyric list is rendered only when there are lyrics.
Draw ==
    /\ pc = "draw"
    /\ \E files_area_empty \in BOOLEAN, lyrics_area_empty \in BOOLEAN :
         /\ file_list_state' = ListRender(Len(files), file_list_state, files_area_empty)
         /\ lyrics_state' = IF lyrics = <<>> THEN lyrics_state
                            ELSE ListRender(Len(lyrics), lyrics_state, lyrics_area_empty)
    /\ pc' = "sync"
    /\ handled' = None
    /\ UNCHANGED <<files, sink, metadata, prevSpace, lastLoad, disk, ticked>>

\* The lyric synchronisation of the loop.
Sync_skipped ==
    /\ pc = "sync"
    /\ pc' = "poll"
    /\ handled' = None
    /\ UNCHANGED <<files, file_list_state, sink, metadata, lyrics_state,
                   prevSpace, lastLoad, disk>>
    /\ ticked' = TRUE
Sync ==
    /\ pc = "sync"
    /\ lyrics_state' = IF lyrics # <<>> THEN active_idx(lyrics, sink.pos)
                       ELSE lyrics_state
    /\ pc' = "poll"
    /\ handled' = None
    /\ UNCHANGED <<files, file_list_state, sink, metadata, prevSpace, lastLoad, disk>>
    /\ ticked' = TRUE

\* event::poll times out, or the event is not a key press.
PollNothing ==
    /\ pc = "poll"
    /\ pc' = "draw"
    /\ handled' = None
    /\ UNCHANGED <<files, file_list_state, sink, metadata, lyrics_state, prevSpace, lastLoad, disk, ticked>>

\* A key press none of the arms matches.
OtherKey ==
    /\ pc = "poll"
    /\ pc' = "draw"
    /\ handled' = Key("other", FALSE)
    /\ prevSpace' = None
    /\ UNCHANGED <<files, file_list_state, sink, metadata, lyrics_state, lastLoad, disk, ticked>>

\* 'q'.
Quit ==
    /\ pc = "poll"
    /\ pc' = "exited"
    /\ handled' = Key("q", FALSE)
    /\ prevSpace' = None
    /\ UNCHANGED <<files, file_list_state, sink, metadata, lyrics_state, lastLoad, disk, ticked>>

\* Space.
TogglePause ==
    /\ pc = "poll"
    /\ sink' = toggle_pause(sink)
    /\ pc' = "draw"
    /\ handled' = Key("space", FALSE)
    /\ prevSpace' = Some(PlaybackState(sink))
    /\ UNCHANGED <<files, file_list_state, metadata, lyrics_state, lastLoad, disk, ticked>>

\* Up / 'k'.  With an empty library and the cursor at 0, `files.len() - 1`
\* overflows: a build with overflow checks panics, one without wraps.
MoveUp ==
    /\ pc = "poll"
    /\ handled' = Key("up", FALSE)
    /\ prevSpace' = None
    /\ UNCHANGED <<files, sink, metadata, lyrics_state, lastLoad, disk, ticked>>
    /\ \/ /\ up_subtracts(file_list_state) /\ ~IsSome(checked_sub1(Len(files)))
          /\ pc' = "panicked"
          /\ UNCHANGED file_list_state
       \/ /\ InModelRange(move_up(file_list_state, Len(files)))
          /\ file_list_state' = Some(move_up(file_list_state, Len(files)))
          /\ pc' = "draw"

\* Down / 'j'.  `files.len() - 1` is evaluated whenever the cursor is set.
MoveDown ==
    /\ pc = "poll"
    /\ handled' = Key("down", FALSE)
    /\ prevSpace' = None
    /\ UNCHANGED <<files, sink, metadata, lyrics_state, lastLoad, disk, ticked>>
    /\ \/ /\ down_subtracts(file_list_state) /\ ~IsSome(checked_sub1(Len(files)))
          /\ pc' = "panicked"
          /\ UNCHANGED file_list_state
       \/ /\ InModelRange(move_down(file_list_state, Len(files)))
          /\ file_list_state' = Some(move_down(file_list_state, Len(files)))
          /\ pc' = "draw"

\* The track Enter resolves the cursor to: files.get(i).
selected_track_first == IF files # <<>> THEN Some(files[1]) ELSE None
selected_track ==
    IF IsSome(file_list_state) /\ Unwrap(file_list_state) < Len(files)
    THEN Some(files[Unwrap(file_list_state) + 1])
    ELSE None

\* Enter with nothing to resolve.
ConfirmNothing ==
    /\ pc = "poll"
    /\ ~IsSome(selected_track)
    /\ pc' = "draw"
    /\ handled' = Key("enter", FALSE)
    /\ prevSpace' = None
    /\ UNCHANGED <<files, file_list_state, sink, metadata, lyrics_state, lastLoad, disk, ticked>>

\* app.files after load_track: no statement of load_track assigns it.
files_after_load_dropping(fs, t, env) ==
    IF env.audio = "err" THEN SelectSeq(fs, LAMBDA x : x # t) ELSE fs
files_after_load(fs, t, env) == fs

\* app.file_list_state after load_track: no statement of load_track assigns it.
selection_after_load_reset(sel, t, env) == Some(0)
selection_after_load(sel, t, env) == sel

\* Where run_app goes on after load_track, which returns () whatever it met:
\* to the next iteration of the loop.
after_load_propagating(env) == IF env.audio = "err" THEN "exited" ELSE "draw"
after_load(env) == "draw"

\* Enter on a track: app.load_track(&path_clone).
ConfirmLoad ==
    /\ pc = "poll"
    /\ IsSome(selected_track)
    /\ LET t == Unwrap(selected_track) IN
       \E env \in LoadEnvs(t) :
         /\ sink' = load_sink(sink, t, env)
         /\ title' = load_title(title, t, env)
         /\ artist' = load_artist(artist, t, env)
         /\ album' = load_album(album, t, env)
         /\ duration' = load_duration(duration, t, env)
         /\ cover_art' = load_cover_art(cover_art, t, env)
         /\ lyrics' = load_lyrics(lyrics, t, env)
         /\ files' = files_after_load(files, t, env)
         /\ file_list_state' = selection_after_load(file_list_state, t, env)
         /\ lastLoad' = Some([track |-> t, env |-> env])
         /\ pc' = after_load(env)
    /\ handled' = Key("enter", TRUE)
    /\ prevSpace' = None
    /\ UNCHANGED <<lyrics_state, disk>>
    /\ ticked' = FALSE

\* The audio thread plays on: the position of an unpaused, non-empty sink grows.
Advance ==
    /\ pc \in {"draw", "sync", "poll"}
    /\ ~sink_empty(sink) /\ ~sink.paused
    /\ sink.pos + 1000 \in Positions
    /\ sink' = [sink EXCEPT !.pos = @ + 1000]
    /\ handled' = None
    /\ UNCHANGED <<files, file_list_state, metadata, lyrics_state, pc, prevSpace, lastLoad, disk, ticked>>

\* The audio thread reaches the end of the playing source and drops it.
TrackEnds ==
    /\ pc \in {"draw", "sync", "poll"}
    /\ ~sink_empty(sink) /\ ~sink.paused
    /\ sink' = [sink EXCEPT !.queue = Tail(@)]
    /\ handled' = None
    /\ prevSpace' = None
    /\ UNCHANGED <<files, file_list_state, metadata, lyrics_state, pc, lastLoad, disk, ticked>>

Next ==
    \/ Draw \/ Sync \/ PollNothing \/ OtherKey \/ Quit
    \/ TogglePause \/ MoveUp \/ MoveDown \/ ConfirmNothing \/ ConfirmLoad
    \/ Advance \/ TrackEnds

Spec == Init /\ [][Next]_vars

\* ------------------------------------------------------------ properties
\* The playback session held in AppState.
Session == <<sink, title, artist, album, duration, cover_art, lyrics>>

\* The step just taken was load_track, on this track, in these surroundings.
JustLoaded == IsSome(handled) /\ Unwrap(handled).load
LoadedTrack == Unwrap(lastLoad).track
LoadedEnv == Unwrap(lastLoad).env

\* C1: with a library of n >= 1 tracks and the cursor at i < n, Up moves the
\* cursor to n-1 when i = 0 and to i-1 otherwise, and Down moves it to 0 when
\* i = n-1 and to i+1 otherwise (n = 3: up from 0 gives 2, down from 2 gives 0).
C1_CursorWraps ==
    (/\ IsSome(handled)
     /\ Unwrap(handled).key \in {"up", "down"}
     /\ Len(files) >= 1
     /\ IsSome(Unwrap(handled).sel)
     /\ Unwrap(Unwrap(handled).sel) < Len(files))
    => LET i == Unwrap(Unwrap(handled).sel)
           n == Len(files)
       IN  IF Unwrap(handled).key = "up"
           THEN file_list_state = Some(IF i = 0 THEN n - 1 ELSE i - 1)
           ELSE file_list_state = Some(IF i = n - 1 THEN 0 ELSE i + 1)

\* Up was pressed with the cursor on the first of three tracks and the cursor
\* is now on the last.
C1_Witness ==
    /\ IsSome(handled)
    /\ Unwrap(handled).key = "up"
    /\ Len(files) = 3
    /\ Unwrap(handled).sel = Some(0)
    /\ file_list_state = Some(2)

\* C2: with an empty library every Up, Down and Enter is a no-op: the cursor
\* stays unset, no load is issued and the loop does not panic.
C2_EmptyLibraryNoOp ==
    files = <<>> =>
        /\ file_list_state = None
        /\ lastLoad = None
        /\ pc # "panicked"

\* C3: Space turns Playing into Paused and Paused into Playing, and in any
\* other state changes nothing of the session, the pause flag included.
C3_ToggleOnlyWhenLoaded ==
    [][TogglePause =>
         CASE PlaybackState(sink) = "Playing" -> PlaybackState(sink') = "Paused"
           [] PlaybackState(sink) = "Paused"  -> PlaybackState(sink') = "Playing"
           [] OTHER -> Session' = Session]_vars

\* C4: two Space presses in a row, with no other key and no end of track
\* between them, leave the playback state as the first press found it.
C4_ToggleTwice ==
    (/\ IsSome(handled)
     /\ Unwrap(handled).key = "space"
     /\ IsSome(Unwrap(handled).before_that))
    => PlaybackState(sink) = Unwrap(Unwrap(handled).before_that)

\* The second of two Space presses has brought a playing track back to Playing.
C4_Witness ==
    /\ IsSome(handled)
    /\ Unwrap(handled).key = "space"
    /\ Unwrap(handled).before_that = Some("Playing")
    /\ Unwrap(handled).was = "Paused"
    /\ PlaybackState(sink) = "Playing"

\* C5: a load whose decode succeeds ends in Playing, whatever state it found.
C5_LoadAutoplays ==
    (JustLoaded /\ LoadedEnv.audio = "ok") => PlaybackState(sink) = "Playing"

\* A load that found the sink paused has succeeded and the track plays.
C5_Witness ==
    /\ JustLoaded
    /\ LoadedEnv.audio = "ok"
    /\ Unwrap(handled).was = "Paused"
    /\ PlaybackState(sink) = "Playing"

\* C6: the sink never holds more than one track, and a track it holds is the
\* one of the last load, which succeeded.
C6_LoadReplaces ==
    /\ Len(sink.queue) <= 1
    /\ sink.queue # <<>> =>
         /\ IsSome(lastLoad)
         /\ LoadedEnv.audio = "ok"
         /\ sink.queue = <<LoadedTrack>>

\* A load made while a track was playing has succeeded; the sink holds the
\* new track alone.
C6_Witness ==
    /\ JustLoaded
    /\ Unwrap(handled).was = "Playing"
    /\ LoadedEnv.audio = "ok"
    /\ sink.queue = <<LoadedTrack>>

\* C7: a load that cannot open or decode the file leaves no audio playing and
\* a session that carries the error: one that differs from the session it
\* found, when that was Idle or a session of a successful load.
C7_FailedLoadCarriesError ==
    [][(/\ JustLoaded'
        /\ Unwrap(lastLoad').env.audio = "err"
        /\ (IsSome(lastLoad) => LoadedEnv.audio = "ok"))
       => (sink_empty(sink') /\ Session' # Session)]_vars

\* C8: after a load no field holds anything but its reset value or what this
\* load found for this track.
C8_NoStaleMetadata ==
    IsSome(lastLoad) =>
        LET t == LoadedTrack
            env == LoadedEnv
        IN  /\ title \in {Lit("Loading..."), Lit("Unknown Title"),
                          FileName(t), TagField("title", t)}
            /\ title = TagField("title", t) => env.probe = "ok"
            /\ artist \in {Lit("-"), Lit("Unknown Artist"), TagField("artist", t)}
            /\ artist = TagField("artist", t) => env.probe = "ok"
            /\ album \in {Lit("-"), Lit("Unknown Album"), TagField("album", t)}
            /\ album = TagField("album", t) => env.probe = "ok"
            /\ duration # 0 => (env.audio = "ok" /\ Some(duration) = total_duration(t))
            /\ cover_art # None => (cover_art = Some(t) /\ env.probe = "ok" /\ env.image)
            /\ lyrics # <<>> =>
                 /\ env.probe = "ok"
                 /\ env.lrc # "unreadable"
                 /\ \A i \in 1..Len(lyrics) :
                      lyrics[i].text[Len(lyrics[i].text)] = TrackChar(t)

\* A track was playing, and a load whose tag reader failed and whose decode
\* failed has put every field back to its reset value or the file name.
C8_Witness ==
    /\ JustLoaded
    /\ Unwrap(handled).was = "Playing"
    /\ LoadedEnv.probe = "err"
    /\ LoadedEnv.audio = "err"
    /\ title = FileName(LoadedTrack)
    /\ lyrics = <<>>
    /\ duration = 0
    /\ cover_art = None

\* C9: whenever the load gets no tag (the reader fails, or the file has no
\* tag), the title is the file name afterwards, never the loading placeholder.
C9_TitleFallsBackToFileName ==
    IsSome(lastLoad) =>
        /\ ~HasTag(LoadedTrack, LoadedEnv) => title = FileName(LoadedTrack)
        /\ title # Lit("Loading...")

\* C10: after a load the lyrics are those of the sidecar when it exists, else
\* those of the tag's lyric text when there is one, else empty; the sidecar
\* counts whether or not the track has readable tags.
C10_LyricPriority ==
    IsSome(lastLoad) =>
        LET t == LoadedTrack
            env == LoadedEnv
            embedded == IF HasTag(t, env) THEN first_text_item(lyrics_items(t)) ELSE None
        IN  /\ env.lrc = "ok" => lyrics = parse_lrc(SidecarContent(t))
            /\ env.lrc = "absent" =>
                 lyrics = IF IsSome(embedded) THEN parse_lrc(Unwrap(embedded)) ELSE <<>>

\* ------------------------------------------------------ lyric files
\* Texts of at most n lines, each line taken from pool and ended by "\n".
RECURSIVE JoinLines(_)
JoinLines(ls) ==
    IF ls = <<>> THEN <<>> ELSE Head(ls) \o <<"\n">> \o JoinLines(Tail(ls))

Texts(pool, n) == {JoinLines(ls) : ls \in UNION {[1..k -> pool] : k \in 0..n}}

\* A library of one track, b.MP3, whose sidecar holds one of texts.
OneTrack(texts) ==
    /\ music_dir = Some({2})
    /\ \E text \in texts : lrc_files = [t \in Entries |-> text]
    /\ Constructed

\* Lines that differ in their time only: 0 s without text, 1 s twice, 2 s.
SyncPool ==
    { <<"[", "0", "0", ":", "0", "0", "]">>,
      <<"[", "0", "0", ":", "0", "1", "]", "a">>,
      <<"[", "0", "0", ":", "0", "1", "]", "b">>,
      <<"[", "0", "0", ":", "0", "2", "]", "c">> }

InitSync == OneTrack(Texts(SyncPool, MaxSyncLines))

NextSync == Draw \/ Sync \/ PollNothing \/ ConfirmLoad \/ Advance

SpecSync == InitSync /\ [][NextSync]_vars

\* C11: a tick with a non-empty lyric sequence sets the sync cursor to the
\* greatest index whose time is at most the playback position, and to None
\* when the position is before every line; among lines of equal time that
\* are at or before the position the one with the highest index is chosen.
C11_ActiveLine ==
    [][(Sync /\ lyrics # <<>>) =>
         LET before == {i \in 1..Len(lyrics) : lyrics[i].time <= sink.pos}
             r == lyrics_state'
         IN  IF before = {} THEN r = None
             ELSE /\ IsSome(r)
                  /\ Unwrap(r) + 1 \in before
                  /\ \A i \in before : i <= Unwrap(r) + 1]_vars

\* Lines at 0 s, 1 s and 1 s, position 1 s: the cursor is on the last one.
C11_Witness ==
    /\ pc = "poll"
    /\ Len(lyrics) = 3
    /\ lyrics[1].time = 0
    /\ lyrics[2].time = sink.pos /\ lyrics[3].time = sink.pos
    /\ sink.pos = 1000
    /\ lyrics_state = Some(2)

\* C12: once the sync step of a tick has run with an empty lyric sequence,
\* the sync cursor is None, whatever the playback position.
C12_NoLyricsNoCursor ==
    (pc = "poll" /\ lyrics = <<>>) => lyrics_state = None

\* --------------------------------------------------- texts for the parser
\* Lines of a lyric file, as the characters of
\*   "[00:10]Hello", "[00:05]World", "[00:01]a", "[00:01]b",
\*   "[00:01.5]x", "[00:01.50]x", "[00:01.500]x",
\*   "[00:0<ARABIC-INDIC DIGIT THREE>]m", "[0a:01]n", "[00:00]", " ", "[ar:x]".
HelloLine == <<"[", "0", "0", ":", "1", "0", "]", "H", "e", "l", "l", "o">>
WorldLine == <<"[", "0", "0", ":", "0", "5", "]", "W", "o", "r", "l", "d">>
LineA == <<"[", "0", "0", ":", "0", "1", "]", "a">>
LineB == <<"[", "0", "0", ":", "0", "1", "]", "b">>
Frac1Line == <<"[", "0", "0", ":", "0", "1", ".", "5", "]", "x">>
Frac2Line == <<"[", "0", "0", ":", "0", "1", ".", "5", "0", "]", "x">>
Frac3Line == <<"[", "0", "0", ":", "0", "1", ".", "5", "0", "0", "]", "x">>
ArabicLine == <<"[", "0", "0", ":", "0", "ar3", "]", "m">>
LetterLine == <<"[", "0", "a", ":", "0", "1", "]", "n">>
SpacerLine == <<"[", "0", "0", ":", "0", "0", "]">>
BlankLine == <<" ">>
TagLine == <<"[", "a", "r", ":", "x", "]">>

LinePool ==
    {HelloLine, WorldLine, LineA, LineB, Frac1Line, Frac2Line, Frac3Line,
     ArabicLine, LetterLine, SpacerLine, BlankLine, TagLine}

InitParse == OneTrack(Texts(LinePool, MaxLines))

NextParse == Draw \/ Sync \/ ConfirmLoad

SpecParse == InitParse /\ [][NextParse]_vars

\* The last load read the sidecar and parsed it into app.lyrics.
SidecarParsed ==
    /\ IsSome(lastLoad)
    /\ HasTag(LoadedTrack, LoadedEnv)
    /\ LoadedEnv.lrc = "ok"

\* C13: what parse_lrc returns is sorted by time, non-decreasing, and lines
\* of equal time keep the relative order they have in the input;
\* "[00:10]Hello" followed by "[00:05]World" gives (5 s, World), (10 s, Hello).
C13_SortedStable ==
    SidecarParsed =>
      LET text  == SidecarContent(LoadedTrack)
          input == collect_lines(lines(text))
      IN  /\ \A i, j \in 1..Len(lyrics) : i < j => lyrics[i].time <= lyrics[j].time
          /\ \A k \in 1..Len(input) :
                SelectSeq(lyrics, LAMBDA x : x.time = input[k].time)
                  = SelectSeq(input, LAMBDA x : x.time = input[k].time)
          /\ text = JoinLines(<<HelloLine, WorldLine>>) =>
                lyrics = <<[time |-> 5000, text |-> <<"W", "o", "r", "l", "d">>],
                           [time |-> 10000, text |-> <<"H", "e", "l", "l", "o">>]>>

\* The sidecar "[00:10]Hello\n[00:05]World\n" has been parsed.
C13_Witness ==
    /\ SidecarParsed
    /\ SidecarContent(LoadedTrack) = JoinLines(<<HelloLine, WorldLine>>)
    /\ Len(lyrics) = 2 /\ lyrics[1].time = 5000

\* How often x occurs in the sequence seq.
Count(seq, x) == Cardinality({k \in 1..Len(seq) : seq[k] = x})

\* C14: a fraction of 1, 2 or 3 digits is accepted and scaled by its digit
\* count, so each line "[00:01.5]x", "[00:01.50]x", "[00:01.500]x" of the
\* input gives one lyric line at 1500 ms with text "x".
C14_FractionDigits ==
    SidecarParsed =>
      LET ls == lines(SidecarContent(LoadedTrack))
      IN  Count(lyrics, [time |-> 1500, text |-> <<"x">>])
            = Count(ls, Frac1Line) + Count(ls, Frac2Line) + Count(ls, Frac3Line)

\* C15: a line whose timestamp has a field that is not a number is kept, with
\* zero for that field: "[00:0<ARABIC-INDIC DIGIT THREE>]m" gives (0 s, m)
\* and "[0a:01]n" gives (1 s, n).
C15_MalformedFieldIsZero ==
    SidecarParsed =>
      LET ls == lines(SidecarContent(LoadedTrack))
      IN  /\ Count(lyrics, [time |-> 0, text |-> <<"m">>]) = Count(ls, ArabicLine)
          /\ Count(lyrics, [time |-> 1000, text |-> <<"n">>]) = Count(ls, LetterLine)

\* A line that parse_lrc recognizes: not blank, and the timestamp pattern
\* matches it.
Recognized(l) == trim(l) # <<>> /\ is_match(trim(l))

\* C16: parse_lrc gives exactly one lyric line for each input line with a
\* timestamp it recognizes, also when no text follows the timestamp (a spacer
\* with empty text), and nothing for blank lines and lines without such a
\* timestamp; the other lines are parsed as if those lines were not there.
C16_OnePerTimedLine ==
    SidecarParsed =>
      LET ls   == lines(SidecarContent(LoadedTrack))
          kept == SelectSeq(ls, Recognized)
      IN  /\ Len(lyrics) = Len(kept)
          /\ Count(lyrics, [time |-> 0, text |-> <<>>]) = Count(ls, SpacerLine)
          /\ Count(kept, BlankLine) = 0 /\ Count(kept, TagLine) = 0
          /\ lyrics = parse_lrc(JoinLines(kept))

\* "[ar:x]\n[00:00]\n" has been parsed into the one spacer line.
C16_Witness ==
    /\ SidecarParsed
    /\ SidecarContent(LoadedTrack) = JoinLines(<<TagLine, SpacerLine>>)
    /\ lyrics = <<[time |-> 0, text |-> <<>>]>>

InitScan ==
    /\ music_dir \in {None} \cup {Some(S) : S \in SUBSET Entries}
    /\ lrc_files = [t \in Entries |-> DefaultSidecar(t)]
    /\ Constructed

NextScan == Draw \/ Sync \/ PollNothing

SpecScan == InitScan /\ [][NextScan]_vars

\* The supported extensions in every spelling that occurs on disk.
AnyCaseSupported == {"flac", "mp3", "MP3", "wav", "ogg", "m4a", "M4a"}

\* C18: the library is exactly the regular files among the entries of the
\* music directory whose extension is flac, mp3, wav, ogg or m4a in any
\* case, in ascending path order; it is empty when the directory is missing
\* or unreadable, and the program runs on; the browser cursor starts at 0
\* when the library is not empty and unset when it is.
C18_Scan ==
    LET audio == IF IsSome(music_dir)
                 THEN {e \in Unwrap(music_dir) :
                         /\ is_file(e)
                         /\ IsSome(extension(e))
                         /\ Unwrap(extension(e)) \in AnyCaseSupported}
                 ELSE {}
    IN  /\ {files[i] : i \in 1..Len(files)} = audio
        /\ \A i, j \in 1..Len(files) : i < j => files[i] < files[j]
        /\ file_list_state = IF audio # {} THEN Some(0) ELSE None
        /\ pc \in {"draw", "sync", "poll"}

\* A directory with a.flac, b.MP3, c.txt, d.ogg/, e and f.M4a has been
\* scanned and the first tick has reached the poll.
C18_Witness ==
    /\ music_dir = Some(1..6)
    /\ files = <<1, 2, 6>>
    /\ file_list_state = Some(0)
    /\ pc = "poll"

\* C19: Enter with the browser cursor on index i loads files[i], once, and
\* leaves library and cursor alone; Enter with no selection (or a cursor that
\* points at no track) loads nothing and leaves the whole state as it was.
C19_ConfirmLoadsSelected ==
    [][(IsSome(handled') /\ Unwrap(handled').key = "enter") =>
         IF IsSome(file_list_state) /\ Unwrap(file_list_state) < Len(files)
         THEN /\ Unwrap(handled').load
              /\ IsSome(lastLoad')
              /\ Unwrap(lastLoad').track = files[Unwrap(file_list_state) + 1]
              /\ UNCHANGED <<files, file_list_state>>
         ELSE /\ ~Unwrap(handled').load
              /\ UNCHANGED <<files, file_list_state, sink, metadata,
                             lyrics_state, lastLoad>>]_vars

\* Enter with the cursor on the second track has loaded the second track.
C19_Witness ==
    /\ JustLoaded
    /\ Unwrap(handled).sel = Some(1)
    /\ LoadedTrack = files[2]

\* C20: whatever a load meets, the loop goes on with its next iteration and
\* the track is still in the library, under the cursor, to be confirmed again.
C20_LoadNeverEndsLoop ==
    JustLoaded =>
      /\ pc = "draw"
      /\ ENABLED Draw
      /\ selected_track = Some(LoadedTrack)

\* a.flac has been loaded with everything failing: the file cannot be
\* decoded, its tags cannot be read, the sidecar is unreadable.
C20_Witness ==
    /\ JustLoaded
    /\ LoadedTrack = 1
    /\ LoadedEnv.audio = "err" /\ LoadedEnv.probe = "err"
    /\ LoadedEnv.lrc = "unreadable" /\ ~LoadedEnv.image
    /\ pc = "draw"

\* C21: no step of the control loop (Up, Down, Enter with or without a load,
\* Space, a tick, any other key) changes the library: contents, order and
\* length stay those of the startup scan.
C21_LibraryReadOnly ==
    [][files' = files]_vars

\* A track of a three-track library has been loaded, its decode failing, and
\* the library still is what the scan gave.
C21_Witness ==
    /\ JustLoaded
    /\ LoadedEnv.audio = "err"
    /\ Len(files) = 3
    /\ files = scan(music_dir)

\* C22: a load leaves the browser cursor where it was, and Up and Down
\* change nothing but the browser cursor: the sink with its loaded track and
\* Playing/Paused state, the metadata, the lyrics and the sync cursor stay.
C22_CursorAndSessionIndependent ==
    [][/\ (IsSome(handled') /\ Unwrap(handled').load) =>
            file_list_state' = file_list_state
       /\ (IsSome(handled') /\ Unwrap(handled').key \in {"up", "down"}) =>
            UNCHANGED <<sink, metadata, lyrics_state, lastLoad>>]_vars

\* The first track was loaded and plays; Down has moved the cursor to the
\* second track.
C22_Witness ==
    /\ IsSome(handled) /\ Unwrap(handled).key = "down"
    /\ Unwrap(handled).sel = Some(0)
    /\ file_list_state = Some(1)
    /\ IsSome(lastLoad) /\ LoadedTrack = files[1]
    /\ PlaybackState(sink) = "Playing"
    /\ sink.queue = <<files[1]>>

\* ------------------------------------------------- the loop left alone
\* The loop of run_app never waits: draw and the sync return, and event::poll
\* returns after 100 ms at the latest, with a key or without.
InitTick == OneTrack(Texts(SyncPool, MaxLines))

SpecTick ==
    /\ InitTick /\ [][NextSync]_vars
    /\ WF_vars(Draw)
    /\ WF_vars(Sync)
    /\ WF_vars(PollNothing \/ ConfirmLoad)

\* The line that is active at position p: the last one with time <= p.
ReachedLines(p) == {i \in 1..Len(lyrics) : lyrics[i].time <= p}
IsActiveLine(cursor, p) ==
    IF ReachedLines(p) = {} THEN cursor = None
    ELSE /\ IsSome(cursor)
         /\ Unwrap(cursor) + 1 \in ReachedLines(p)
         /\ \A i \in ReachedLines(p) : i <= Unwrap(cursor) + 1

\* C23: every iteration of the loop draws, then recomputes the sync cursor
\* from the position of that moment, then polls, whether or not a key came;
\* so once the position has reached the time of a lyric line, the iteration
\* ends with the sync cursor on the active line, unless a key comes first.
C23_RecomputedEveryIteration ==
    /\ [][((pc' # pc) =>
             <<pc, pc'>> \in {<<"draw", "sync">>, <<"sync", "poll">>, <<"poll", "draw">>})
          /\ ((pc = "sync" /\ pc' = "poll" /\ lyrics # <<>>) =>
                IsActiveLine(lyrics_state', sink.pos))]_vars
    /\ (lyrics # <<>> /\ ReachedLines(sink.pos) # {})
         ~> (JustLoaded \/ (pc = "poll" /\ IsActiveLine(lyrics_state, sink.pos)))

\* No key since the load, the position has reached 2 s and the iteration has
\* put the cursor on the line of 2 s.
C23_Witness ==
    /\ pc = "poll" /\ handled = None
    /\ sink.pos = 2000
    /\ Len(lyrics) = 2 /\ lyrics[1].time = 1000 /\ lyrics[2].time = 2000
    /\ lyrics_state = Some(1)

\* C24: after a load whose file open or decode failed there are no lyrics
\* and the duration is zero, whatever sidecar or tag the track has.
C24_NoLyricsWithoutAudio ==
    (JustLoaded /\ LoadedEnv.audio = "err") =>
      (lyrics = <<>> /\ duration = 0)

\* C25: while the library is not empty the browser cursor is set and points
\* at one of its tracks.
C25_CursorInLibrary ==
    files # <<>> =>
      /\ IsSome(file_list_state)
      /\ 0 <= Unwrap(file_list_state)
      /\ Unwrap(file_list_state) < Len(files)

\* Down on the last of three tracks has brought the cursor back to the first.
C25_Witness ==
    /\ Len(files) = 3
    /\ IsSome(handled) /\ Unwrap(handled).key = "down"
    /\ Unwrap(handled).sel = Some(2)
    /\ file_list_state = Some(0)

\* C26: the sync cursor is None or an index into the current lyric
\* sequence, in every state, the one drawn right after a load included.
C26_SyncCursorValid ==
    IsSome(lyrics_state) => Unwrap(lyrics_state) < Len(lyrics)

\* None below every index.
Rank(cursor) == IF IsSome(cursor) THEN Unwrap(cursor) ELSE -1

\* C27: between two loads the position of the sink does not go back, and
\* from one lyric sync to the next the sync cursor does not go back either:
\* None, then an index, then equal or higher indices.
C27_CursorNeverGoesBack ==
    [][(~(IsSome(handled') /\ Unwrap(handled').load) => sink'.pos >= sink.pos)
       /\ ((pc = "sync" /\ pc' = "poll" /\ ticked) =>
            Rank(lyrics_state) <= Rank(lyrics_state'))]_vars

\* The syncs after one load have taken the cursor to the last of three
\* lines, at 1 s, 2 s and 2 s, with the position at 2 s.
C27_Witness ==
    /\ pc = "poll" /\ ticked
    /\ Len(lyrics) = 3 /\ lyrics[1].time = 1000 /\ lyrics[2].time = 2000
    /\ lyrics[3].time = 2000
    /\ sink.pos = 2000
    /\ lyrics_state = Some(2)

================================================================
